---- MODULE Spec2Model ----
(***************************************************************************)
(* Token-bucket rate limiter (package rate): Limiter.Allow,                *)
(* Limiter.Penalize and FlatRefiller, run by concurrent callers.           *)
(*                                                                         *)
(* Token balances and costs are float64 in the source; the model uses      *)
(* integers (every value the model draws is a small whole number, which    *)
(* float64 represents exactly).  time.Time / time.Duration are integers    *)
(* counted in clock ticks.                                                 *)
(***************************************************************************)
EXTENDS Integers, Sequences, FiniteSets, TLC

\* ---------------------------------------------------------------- bounds
NumProcs == 3       \* calls in flight at once
MaxCalls == 2       \* calls issued in one behaviour of Spec
MaxBurst == 3       \* calls issued in one behaviour of SpecBurst
MaxTime  == 2       \* last clock tick
MaxElapsed == 24    \* last clock tick of SpecRefill

Procs    == 1..NumProcs
Entities == {"lewis", "unknown"}
Costs    == {-1, 0, 1, 2}

NoProc   == 0       \* a mutex nobody holds
NoBucket == 0       \* the nil *Bucket

\* The refill policies the limiter is built with: FlatRefiller values.
Refillers ==
    { [InitialTokens |-> 2, MaxTokens |-> 2, TokensPerInterval |-> 0, Interval |-> 0],
      [InitialTokens |-> 1, MaxTokens |-> 3, TokensPerInterval |-> 1, Interval |-> 1],
      [InitialTokens |-> 1, MaxTokens |-> 2, TokensPerInterval |-> 2, Interval |-> 2],
      [InitialTokens |-> 1, MaxTokens |-> 1, TokensPerInterval |-> 1, Interval |-> -1] }

VARIABLES
    refiller,   \* Limiter.refiller
    now,        \* the wall clock read by time.Now / time.Since
    muReaders,  \* Limiter.mu: callers holding it in read mode
    muWriter,   \* Limiter.mu: caller holding it in write mode, or NoProc
    buckets,    \* Limiter.buckets: entity -> *Bucket (index into heap) or nil
    heap,       \* the allocated Bucket objects: [mu, Tokens, LastRefill]
    pc,         \* each caller's position
    op,         \* the method a caller is running
    entity,     \* its entity argument
    cost,       \* its cost argument
    bucket,     \* its local variable bucket
    exists,     \* its local variable exists
    tmp,        \* the value loaded by `bucket.Tokens -= cost`
    ok,         \* the boolean the call is about to return
    calls,      \* calls issued so far
    snap,       \* history: what a caller saw when it entered the critical section
    log,        \* history: the finished calls [op, entity, cost, ok, err], in return order
    serial,     \* history: each bucket as left by running its calls one at a time
    created     \* history: per entity, the number of NewBucket calls

vars == << refiller, now, muReaders, muWriter, buckets, heap, pc, op, entity,
           cost, bucket, exists, tmp, ok, calls, snap, log, serial, created >>

NoSnap == [Tokens |-> 0, LastRefill |-> 0, at |-> 0, post |-> 0, want |-> FALSE]

\* -------------------------------------------------------------- refiller
Min(a, b) == IF a <= b THEN a ELSE b

\* Go's integer division truncates toward zero.
Quot(a, b) ==
    IF (a >= 0) = (b > 0) THEN (IF a >= 0 THEN a ELSE -a) \div (IF b > 0 THEN b ELSE -b)
    ELSE -((IF a >= 0 THEN a ELSE -a) \div (IF b > 0 THEN b ELSE -b))

NewBucket_Empty(r, t) == [mu |-> NoProc, Tokens |-> 0, LastRefill |-> t]

\* FlatRefiller.NewBucket at clock t.
NewBucket(r, t) == [mu |-> NoProc, Tokens |-> r.InitialTokens, LastRefill |-> t]

\* refills := time.Since(b.LastRefill) / r.Interval
Refills(r, b, t) == Quot(t - b.LastRefill, r.Interval)

\* Refill without the cap at MaxTokens.
Refill_NoCap(r, b, t) ==
    IF r.Interval <= 0 THEN b
    ELSE IF Refills(r, b, t) = 0 THEN b
    ELSE [b EXCEPT !.Tokens = b.Tokens + Refills(r, b, t) * r.TokensPerInterval,
                   !.LastRefill = b.LastRefill + Refills(r, b, t) * r.Interval]

\* Refill that moves LastRefill to the time of the call.
Refill_ToNow(r, b, t) ==
    IF r.Interval <= 0 THEN b
    ELSE IF Refills(r, b, t) = 0 THEN b
    ELSE [b EXCEPT !.Tokens = Min(r.MaxTokens, b.Tokens + Refills(r, b, t) * r.TokensPerInterval),
                   !.LastRefill = t]

\* Refill that caps the balance also when no whole interval has elapsed.
Refill_CapAlways(r, b, t) ==
    IF r.Interval <= 0 THEN b
    ELSE IF Refills(r, b, t) = 0 THEN [b EXCEPT !.Tokens = Min(r.MaxTokens, @)]
    ELSE [b EXCEPT !.Tokens = Min(r.MaxTokens, b.Tokens + Refills(r, b, t) * r.TokensPerInterval),
                   !.LastRefill = b.LastRefill + Refills(r, b, t) * r.Interval]

\* Refill that moves LastRefill one interval too far.
Refill_Ahead(r, b, t) ==
    IF r.Interval <= 0 THEN b
    ELSE IF Refills(r, b, t) = 0 THEN b
    ELSE [b EXCEPT !.Tokens = Min(r.MaxTokens, b.Tokens + Refills(r, b, t) * r.TokensPerInterval),
                   !.LastRefill = b.LastRefill + (Refills(r, b, t) + 1) * r.Interval]

Refill_ZeroOnly(r, b, t) ==
    IF r.Interval = 0 THEN b
    ELSE IF Refills(r, b, t) = 0 THEN b
    ELSE [b EXCEPT !.Tokens = Min(r.MaxTokens, b.Tokens + Refills(r, b, t) * r.TokensPerInterval),
                   !.LastRefill = b.LastRefill + Refills(r, b, t) * r.Interval]

\* FlatRefiller.Refill on bucket b at clock t.
Refill(r, b, t) ==
    IF r.Interval <= 0 THEN b
    ELSE IF Refills(r, b, t) = 0 THEN b
    ELSE [b EXCEPT !.Tokens = Min(r.MaxTokens, b.Tokens + Refills(r, b, t) * r.TokensPerInterval),
                   !.LastRefill = b.LastRefill + Refills(r, b, t) * r.Interval]

\* ------------------------------------------- the handlers run one at a time
\* The critical section of Allow (Refill, compare, debit) as one sequential run.
AllowSerial(r, b, c, t) ==
    IF Refill(r, b, t).Tokens < c
    THEN [bucket |-> Refill(r, b, t), ok |-> FALSE]
    ELSE [bucket |-> [Refill(r, b, t) EXCEPT !.Tokens = @ - c], ok |-> TRUE]

\* The critical section of Penalize as one sequential run.
PenalizeSerial(b, c) == [b EXCEPT !.Tokens = @ - c]

\* ----------------------------------------------------------------- Init
Init ==
    /\ refiller \in Refillers
    /\ now = 0
    /\ muReaders = {}
    /\ muWriter = NoProc
    /\ buckets = [e \in Entities |-> NoBucket]
    /\ heap = << >>
    /\ pc = [p \in Procs |-> "idle"]
    /\ op = [p \in Procs |-> "Allow"]
    /\ entity = [p \in Procs |-> "lewis"]
    /\ cost = [p \in Procs |-> 0]
    /\ bucket = [p \in Procs |-> NoBucket]
    /\ exists = [p \in Procs |-> FALSE]
    /\ tmp = [p \in Procs |-> 0]
    /\ ok = [p \in Procs |-> FALSE]
    /\ calls = 0
    /\ snap = [p \in Procs |-> NoSnap]
    /\ log = << >>
    /\ serial = << >>
    /\ created = [e \in Entities |-> 0]

\* ------------------------------------------------------------- the clock
\* Time passes between any two steps; the clock never runs backward.
Tick ==
    /\ now < MaxTime
    /\ now' = now + 1
    /\ UNCHANGED << refiller, muReaders, muWriter, buckets, heap, pc, op, entity,
                    cost, bucket, exists, tmp, ok, calls, snap, log, serial, created >>

\* ------------------------------------------------- steps shared by both
\* Callers are interchangeable: a new call runs in the lowest free slot.
Free(p) == pc[p] = "idle" /\ \A q \in Procs : q < p => pc[q] # "idle"

Result_NotNegated(o, allow) == allow

\* The boolean a method returns when Allow returns allow: Reject returns !allow.
Result(o, allow) == IF o = "Reject" THEN ~allow ELSE allow

\* What a finished call leaves in the log.
Returned(o, e, c, res, failed) ==
    [op |-> o, entity |-> e, cost |-> c, ok |-> res, err |-> failed]

\* The two checks of the cost that open Allow and Penalize.
Validate_NoNegativeCheck(c) == IF c = 0 THEN "noop" ELSE "proceed"

Validate_NoZeroCheck(c) == IF c < 0 THEN "error" ELSE "proceed"

Validate(c) == IF c < 0 THEN "error" ELSE IF c = 0 THEN "noop" ELSE "proceed"

\* Validation of the cost, then l.mu.RLock() and the map lookup.
\* cost < 0: error; cost == 0: success; both return before any lock.
Enter(p, o, e, c, next) ==
    /\ Free(p)
    /\ calls' = calls + 1
    /\ IF Validate(c) = "error" THEN
            /\ log' = Append(log, Returned(o, e, c, Result(o, FALSE), TRUE))
            /\ UNCHANGED << muReaders, pc, op, entity, cost, bucket, exists >>
       ELSE IF Validate(c) = "noop" THEN
            /\ log' = Append(log, Returned(o, e, c, o = "Allow", FALSE))
            /\ UNCHANGED << muReaders, pc, op, entity, cost, bucket, exists >>
       ELSE
            /\ muWriter = NoProc
            /\ muReaders' = muReaders \cup {p}
            /\ op' = [op EXCEPT ![p] = o]
            /\ entity' = [entity EXCEPT ![p] = e]
            /\ cost' = [cost EXCEPT ![p] = c]
            /\ bucket' = [bucket EXCEPT ![p] = buckets[e]]
            /\ exists' = [exists EXCEPT ![p] = (buckets[e] # NoBucket)]
            /\ pc' = [pc EXCEPT ![p] = next]
            /\ log' = log
    /\ UNCHANGED << refiller, now, muWriter, buckets, heap, tmp, ok, snap, serial, created >>

\* l.mu.RUnlock(), then the branch on !exists.
RUnlock(p, from, miss, hit) ==
    /\ pc[p] = from
    /\ muReaders' = muReaders \ {p}
    /\ pc' = [pc EXCEPT ![p] = IF exists[p] THEN hit ELSE miss]
    /\ UNCHANGED << refiller, now, muWriter, buckets, heap, op, entity, cost,
                    bucket, exists, tmp, ok, calls, snap, log, serial, created >>

\* l.mu.Lock()
Lock(p, from, to) ==
    /\ pc[p] = from
    /\ muWriter = NoProc
    /\ muReaders = {}
    /\ muWriter' = p
    /\ pc' = [pc EXCEPT ![p] = to]
    /\ UNCHANGED << refiller, now, muReaders, buckets, heap, op, entity, cost,
                    bucket, exists, tmp, ok, calls, snap, log, serial, created >>

\* bucket = l.refiller.NewBucket(entity); l.buckets[entity] = bucket
Insert(p, to) ==
    /\ heap' = Append(heap, NewBucket(refiller, now))
    /\ serial' = Append(serial, NewBucket(refiller, now))
    /\ bucket' = [bucket EXCEPT ![p] = Len(heap) + 1]
    /\ buckets' = [buckets EXCEPT ![entity[p]] = Len(heap) + 1]
    /\ created' = [created EXCEPT ![entity[p]] = @ + 1]
    /\ exists' = [exists EXCEPT ![p] = TRUE]
    /\ pc' = [pc EXCEPT ![p] = to]
    /\ UNCHANGED << refiller, now, muReaders, muWriter, op, entity, cost,
                    tmp, ok, calls, snap, log >>

Recheck_NoRecheck(p, from, to) == pc[p] = from /\ Insert(p, to)

\* The re-check under the write lock; on a miss NewBucket and the insert.
Recheck(p, from, to) ==
    /\ pc[p] = from
    /\ IF buckets[entity[p]] # NoBucket THEN
            /\ bucket' = [bucket EXCEPT ![p] = buckets[entity[p]]]
            /\ exists' = [exists EXCEPT ![p] = TRUE]
            /\ pc' = [pc EXCEPT ![p] = to]
            /\ UNCHANGED << refiller, now, muReaders, muWriter, buckets, heap, op, entity,
                            cost, tmp, ok, calls, snap, log, serial, created >>
       ELSE Insert(p, to)

\* Going on without l.mu.Unlock().
Unlock_Kept(p, from, to) ==
    /\ pc[p] = from
    /\ pc' = [pc EXCEPT ![p] = to]
    /\ UNCHANGED << refiller, now, muReaders, muWriter, buckets, heap, op, entity, cost,
                    bucket, exists, tmp, ok, calls, snap, log, serial, created >>

\* l.mu.Unlock()
Unlock(p, from, to) ==
    /\ pc[p] = from
    /\ muWriter' = NoProc
    /\ pc' = [pc EXCEPT ![p] = to]
    /\ UNCHANGED << refiller, now, muReaders, buckets, heap, op, entity, cost,
                    bucket, exists, tmp, ok, calls, snap, log, serial, created >>

\* The caller becomes the holder of bucket.mu.
Acquire(p, from, to) ==
    /\ pc[p] = from
    /\ heap' = [heap EXCEPT ![bucket[p]].mu = p]
    /\ snap' = [snap EXCEPT ![p] = [Tokens |-> heap[bucket[p]].Tokens,
                                    LastRefill |-> heap[bucket[p]].LastRefill,
                                    at |-> 0, post |-> 0, want |-> FALSE]]
    /\ pc' = [pc EXCEPT ![p] = to]
    /\ UNCHANGED << refiller, now, muReaders, muWriter, buckets, op, entity, cost,
                    bucket, exists, tmp, ok, calls, log, serial, created >>

\* A bucket.mu.Lock() that does not wait for the holder.
BucketLock_NoWait(p, from, to) == Acquire(p, from, to)

\* bucket.mu.Lock(): blocks while another caller holds the mutex.
BucketLock(p, from, to) ==
    /\ pc[p] = from
    /\ heap[bucket[p]].mu = NoProc
    /\ Acquire(p, from, to)

\* The return of a call that went past the validation: its locals are gone.
Return(p, from, failed) ==
    /\ pc[p] = from
    /\ log' = Append(log, Returned(op[p], entity[p], cost[p], Result(op[p], ok[p]), failed))
    /\ pc' = [pc EXCEPT ![p] = "idle"]
    /\ op' = [op EXCEPT ![p] = "Allow"]
    /\ entity' = [entity EXCEPT ![p] = "lewis"]
    /\ cost' = [cost EXCEPT ![p] = 0]
    /\ bucket' = [bucket EXCEPT ![p] = NoBucket]
    /\ exists' = [exists EXCEPT ![p] = FALSE]
    /\ tmp' = [tmp EXCEPT ![p] = 0]
    /\ ok' = [ok EXCEPT ![p] = FALSE]
    /\ snap' = [snap EXCEPT ![p] = NoSnap]
    /\ UNCHANGED << refiller, now, muReaders, muWriter, buckets, calls, serial, created >>

\* A return that leaves bucket.mu locked.
BucketUnlock_Leaked(p, from) ==
    /\ heap' = heap
    /\ Return(p, from, FALSE)

\* bucket.mu.Unlock() and the return.
BucketUnlock(p, from) ==
    /\ pc[p] = from
    /\ heap' = [heap EXCEPT ![bucket[p]].mu = NoProc]
    /\ Return(p, from, FALSE)

\* The load of `bucket.Tokens -= cost`.
Load(p, from, to) ==
    /\ pc[p] = from
    /\ tmp' = [tmp EXCEPT ![p] = heap[bucket[p]].Tokens]
    /\ pc' = [pc EXCEPT ![p] = to]
    /\ UNCHANGED << refiller, now, muReaders, muWriter, buckets, heap, op, entity,
                    cost, bucket, exists, ok, calls, snap, log, serial, created >>

\* The store of `bucket.Tokens -= cost`.
Store(p, from, to, result, v) ==
    /\ pc[p] = from
    /\ heap' = [heap EXCEPT ![bucket[p]].Tokens = v]
    /\ ok' = [ok EXCEPT ![p] = result]
    /\ pc' = [pc EXCEPT ![p] = to]
    /\ UNCHANGED << refiller, now, muReaders, muWriter, buckets, op, entity, cost,
                    bucket, exists, tmp, calls, snap, log, created >>

\* ---------------------------------------------------------------- Allow
AllowEnter(p, e, c) == Enter(p, "Allow", e, c, "a_runlock")

\* Reject calls Allow and returns the negation of its boolean, and its error.
RejectEnter(p, e, c) == Enter(p, "Reject", e, c, "a_runlock")
AllowRUnlock(p)     == RUnlock(p, "a_runlock", "a_lock", "a_block")
AllowLock(p)        == Lock(p, "a_lock", "a_recheck")
AllowRecheck(p)     == Recheck(p, "a_recheck", "a_unlock")
AllowUnlock(p)      == Unlock(p, "a_unlock", "a_block")
AllowBucketLock_NoWait(p) == Acquire(p, "a_block", "a_refill")

AllowBucketLock(p)  == BucketLock(p, "a_block", "a_refill")

\* A Refill that runs over every bucket of the limiter.
AllowRefill_AllBuckets(p) ==
    /\ pc[p] = "a_refill"
    /\ heap' = [b \in DOMAIN heap |-> Refill(refiller, heap[b], now)]
    /\ serial' = [serial EXCEPT ![bucket[p]] = AllowSerial(refiller, @, cost[p], now).bucket]
    /\ snap' = [snap EXCEPT ![p].at = now,
                            ![p].post = Refill(refiller, heap[bucket[p]], now).Tokens,
                            ![p].want = AllowSerial(refiller, serial[bucket[p]], cost[p], now).ok]
    /\ pc' = [pc EXCEPT ![p] = "a_compare"]
    /\ UNCHANGED << refiller, now, muReaders, muWriter, buckets, op, entity, cost,
                    bucket, exists, tmp, ok, calls, log, created >>

AllowRefill_Skipped(p) ==
    /\ pc[p] = "a_refill"
    /\ heap' = heap
    /\ serial' = [serial EXCEPT ![bucket[p]] = AllowSerial(refiller, @, cost[p], now).bucket]
    /\ snap' = [snap EXCEPT ![p].at = now,
                            ![p].post = heap[bucket[p]].Tokens,
                            ![p].want = AllowSerial(refiller, serial[bucket[p]], cost[p], now).ok]
    /\ pc' = [pc EXCEPT ![p] = "a_compare"]
    /\ UNCHANGED << refiller, now, muReaders, muWriter, buckets, op, entity, cost,
                    bucket, exists, tmp, ok, calls, log, created >>

\* l.refiller.Refill(entity, bucket); FlatRefiller never returns an error.
AllowRefill(p) ==
    /\ pc[p] = "a_refill"
    /\ heap' = [heap EXCEPT ![bucket[p]] = Refill(refiller, @, now)]
    /\ serial' = [serial EXCEPT ![bucket[p]] = AllowSerial(refiller, @, cost[p], now).bucket]
    /\ snap' = [snap EXCEPT ![p].at = now,
                            ![p].post = Refill(refiller, heap[bucket[p]], now).Tokens,
                            ![p].want = AllowSerial(refiller, serial[bucket[p]], cost[p], now).ok]
    /\ pc' = [pc EXCEPT ![p] = "a_compare"]
    /\ UNCHANGED << refiller, now, muReaders, muWriter, buckets, op, entity, cost,
                    bucket, exists, tmp, ok, calls, log, created >>

\* A compare that drops the entity's map entry when it denies.
AllowCompare_EvictDenied(p) ==
    /\ pc[p] = "a_compare"
    /\ IF heap[bucket[p]].Tokens < cost[p]
       THEN /\ ok' = [ok EXCEPT ![p] = FALSE]
            /\ pc' = [pc EXCEPT ![p] = "a_ret"]
            /\ buckets' = [buckets EXCEPT ![entity[p]] = NoBucket]
       ELSE /\ ok' = ok
            /\ pc' = [pc EXCEPT ![p] = "a_load"]
            /\ buckets' = buckets
    /\ UNCHANGED << refiller, now, muReaders, muWriter, heap, op, entity,
                    cost, bucket, exists, tmp, calls, snap, log, serial, created >>

AllowCompare_Lte(p) ==
    /\ pc[p] = "a_compare"
    /\ IF heap[bucket[p]].Tokens <= cost[p]
       THEN /\ ok' = [ok EXCEPT ![p] = FALSE]
            /\ pc' = [pc EXCEPT ![p] = "a_ret"]
       ELSE /\ ok' = ok
            /\ pc' = [pc EXCEPT ![p] = "a_load"]
    /\ UNCHANGED << refiller, now, muReaders, muWriter, buckets, heap, op, entity,
                    cost, bucket, exists, tmp, calls, snap, log, serial, created >>

\* if bucket.Tokens < cost { return false, nil }
AllowCompare(p) ==
    /\ pc[p] = "a_compare"
    /\ IF heap[bucket[p]].Tokens < cost[p]
       THEN /\ ok' = [ok EXCEPT ![p] = FALSE]
            /\ pc' = [pc EXCEPT ![p] = "a_ret"]
       ELSE /\ ok' = ok
            /\ pc' = [pc EXCEPT ![p] = "a_load"]
    /\ UNCHANGED << refiller, now, muReaders, muWriter, buckets, heap, op, entity,
                    cost, bucket, exists, tmp, calls, snap, log, serial, created >>

AllowLoad(p)   == Load(p, "a_load", "a_store")
AllowStore(p)  == Store(p, "a_store", "a_ret", TRUE, tmp[p] - cost[p]) /\ UNCHANGED serial
AllowReturn(p) == BucketUnlock(p, "a_ret")

\* ------------------------------------------------------------- Penalize
PenalizeEnter(p, e, c) == Enter(p, "Penalize", e, c, "p_runlock")
PenalizeRUnlock(p)     == RUnlock(p, "p_runlock", "p_lock", "p_block")
PenalizeLock(p)        == Lock(p, "p_lock", "p_recheck")
PenalizeRecheck(p)     == Recheck(p, "p_recheck", "p_unlock")
PenalizeUnlock(p)      == Unlock(p, "p_unlock", "p_block")
PenalizeBucketLock_NoWait(p) == Acquire(p, "p_block", "p_load")

PenalizeBucketLock(p)  == BucketLock(p, "p_block", "p_load")
PenalizeLoad_Refilled(p) ==
    /\ pc[p] = "p_load"
    /\ heap' = [heap EXCEPT ![bucket[p]] = Refill(refiller, @, now)]
    /\ tmp' = [tmp EXCEPT ![p] = Refill(refiller, heap[bucket[p]], now).Tokens]
    /\ pc' = [pc EXCEPT ![p] = "p_store"]
    /\ UNCHANGED << refiller, now, muReaders, muWriter, buckets, op, entity,
                    cost, bucket, exists, ok, calls, snap, log, serial, created >>

PenalizeLoad(p)        == Load(p, "p_load", "p_store")
PenalizeStore_FromZero(p) ==
    /\ Store(p, "p_store", "p_ret", FALSE, 0 - cost[p])
    /\ serial' = [serial EXCEPT ![bucket[p]] = PenalizeSerial(@, cost[p])]

PenalizeStore(p) ==
    /\ Store(p, "p_store", "p_ret", FALSE, tmp[p] - cost[p])
    /\ serial' = [serial EXCEPT ![bucket[p]] = PenalizeSerial(@, cost[p])]
PenalizeReturn(p)      == BucketUnlock(p, "p_ret")

\* ------------------------------------------------ a Refill that fails
\* if err := l.refiller.Refill(entity, bucket); err != nil: the Refiller is the
\* caller's, and one that fails has left the bucket as it was or has written
\* the balance before failing.
AllowRefillError(p) ==
    /\ pc[p] = "a_refill"
    /\ \E t \in {heap[bucket[p]].Tokens, Refill(refiller, heap[bucket[p]], now).Tokens} :
            /\ heap' = [heap EXCEPT ![bucket[p]].Tokens = t]
            /\ snap' = [snap EXCEPT ![p].at = now, ![p].post = t, ![p].want = FALSE]
    /\ ok' = [ok EXCEPT ![p] = FALSE]
    /\ pc' = [pc EXCEPT ![p] = "a_err"]
    /\ UNCHANGED << refiller, now, muReaders, muWriter, buckets, op, entity, cost,
                    bucket, exists, tmp, calls, log, serial, created >>

\* A return of the error that leaves the bucket locked.
AllowReturnError_NoUnlock(p) ==
    /\ heap' = heap
    /\ Return(p, "a_err", TRUE)

\* return false, err, and the deferred bucket.mu.Unlock().
AllowReturnError(p) ==
    /\ pc[p] = "a_err"
    /\ heap' = [heap EXCEPT ![bucket[p]].mu = NoProc]
    /\ Return(p, "a_err", TRUE)

\* ----------------------------------------------------------------- Next
Next ==
    \/ Tick
    \/ \E p \in Procs, e \in Entities, c \in Costs : calls < MaxCalls /\ AllowEnter(p, e, c)
    \/ \E p \in Procs : AllowRUnlock(p)
    \/ \E p \in Procs : AllowLock(p)
    \/ \E p \in Procs : AllowRecheck(p)
    \/ \E p \in Procs : AllowUnlock(p)
    \/ \E p \in Procs : AllowBucketLock(p)
    \/ \E p \in Procs : AllowRefill(p)
    \/ \E p \in Procs : AllowCompare(p)
    \/ \E p \in Procs : AllowLoad(p)
    \/ \E p \in Procs : AllowStore(p)
    \/ \E p \in Procs : AllowReturn(p)
    \/ \E p \in Procs, e \in Entities, c \in Costs : calls < MaxCalls /\ PenalizeEnter(p, e, c)
    \/ \E p \in Procs : PenalizeRUnlock(p)
    \/ \E p \in Procs : PenalizeLock(p)
    \/ \E p \in Procs : PenalizeRecheck(p)
    \/ \E p \in Procs : PenalizeUnlock(p)
    \/ \E p \in Procs : PenalizeBucketLock(p)
    \/ \E p \in Procs : PenalizeLoad(p)
    \/ \E p \in Procs : PenalizeStore(p)
    \/ \E p \in Procs : PenalizeReturn(p)

Spec == Init /\ [][Next]_vars

\* ------------------------------------------------------------- SpecBurst
\* A burst of calls with positive costs, all on the one entity "lewis".
BurstCosts == {1, 2}

NextBurst ==
    \/ Tick
    \/ \E p \in Procs, c \in BurstCosts : calls < MaxBurst /\ AllowEnter(p, "lewis", c)
    \/ \E p \in Procs : AllowRUnlock(p)
    \/ \E p \in Procs : AllowLock(p)
    \/ \E p \in Procs : AllowRecheck(p)
    \/ \E p \in Procs : AllowUnlock(p)
    \/ \E p \in Procs : AllowBucketLock(p)
    \/ \E p \in Procs : AllowRefill(p)
    \/ \E p \in Procs : AllowCompare(p)
    \/ \E p \in Procs : AllowLoad(p)
    \/ \E p \in Procs : AllowStore(p)
    \/ \E p \in Procs : AllowReturn(p)
    \/ \E p \in Procs, c \in BurstCosts : calls < MaxBurst /\ PenalizeEnter(p, "lewis", c)
    \/ \E p \in Procs : PenalizeRUnlock(p)
    \/ \E p \in Procs : PenalizeLock(p)
    \/ \E p \in Procs : PenalizeRecheck(p)
    \/ \E p \in Procs : PenalizeUnlock(p)
    \/ \E p \in Procs : PenalizeBucketLock(p)
    \/ \E p \in Procs : PenalizeLoad(p)
    \/ \E p \in Procs : PenalizeStore(p)
    \/ \E p \in Procs : PenalizeReturn(p)

SpecBurst == Init /\ [][NextBurst]_vars

\* ------------------------------------------------------------ SpecReject
\* Allow and Reject calls, with every cost.
NextReject ==
    \/ Tick
    \/ \E p \in Procs, e \in Entities, c \in Costs : calls < MaxCalls /\ AllowEnter(p, e, c)
    \/ \E p \in Procs, e \in Entities, c \in Costs : calls < MaxCalls /\ RejectEnter(p, e, c)
    \/ \E p \in Procs : AllowRUnlock(p)
    \/ \E p \in Procs : AllowLock(p)
    \/ \E p \in Procs : AllowRecheck(p)
    \/ \E p \in Procs : AllowUnlock(p)
    \/ \E p \in Procs : AllowBucketLock(p)
    \/ \E p \in Procs : AllowRefill(p)
    \/ \E p \in Procs : AllowCompare(p)
    \/ \E p \in Procs : AllowLoad(p)
    \/ \E p \in Procs : AllowStore(p)
    \/ \E p \in Procs : AllowReturn(p)

SpecReject == Init /\ [][NextReject]_vars

\* ------------------------------------------------------------ SpecRefill
\* FlatRefiller on its own, as TestFlatRefill runs it: one bucket made by
\* NewBucket at time 0 and refilled at any later times.
RefillCases ==
    { [InitialTokens |-> i, MaxTokens |-> 100, TokensPerInterval |-> q, Interval |-> n] :
        i \in {-5, 10, 95, 120}, q \in {-30, 0, 10}, n \in {-1, 0, 1, 3, 7} }

InitRefill ==
    /\ refiller \in RefillCases
    /\ now = 0
    /\ muReaders = {}
    /\ muWriter = NoProc
    /\ buckets = [e \in Entities |-> NoBucket]
    /\ heap = << NewBucket(refiller, 0) >>
    /\ pc = [p \in Procs |-> "idle"]
    /\ op = [p \in Procs |-> "Allow"]
    /\ entity = [p \in Procs |-> "lewis"]
    /\ cost = [p \in Procs |-> 0]
    /\ bucket = [p \in Procs |-> NoBucket]
    /\ exists = [p \in Procs |-> FALSE]
    /\ tmp = [p \in Procs |-> 0]
    /\ ok = [p \in Procs |-> FALSE]
    /\ calls = 0
    /\ snap = [p \in Procs |-> NoSnap]
    /\ log = << >>
    /\ serial = << >>
    /\ created = [e \in Entities |-> 0]

\* Time passes.
RefillTick ==
    /\ now < MaxElapsed
    /\ now' = now + 1
    /\ UNCHANGED << refiller, muReaders, muWriter, buckets, heap, pc, op, entity,
                    cost, bucket, exists, tmp, ok, calls, snap, log, serial, created >>

\* One call r.Refill(entity, bucket); snap keeps the bucket as it was and the
\* time of the call.
RefillCall ==
    /\ heap' = << Refill(refiller, heap[1], now) >>
    /\ snap' = [snap EXCEPT ![1] = [Tokens |-> heap[1].Tokens,
                                    LastRefill |-> heap[1].LastRefill,
                                    at |-> now,
                                    post |-> Refill(refiller, heap[1], now).Tokens,
                                    want |-> FALSE]]
    /\ pc' = [pc EXCEPT ![1] = "refilled"]
    /\ UNCHANGED << refiller, now, muReaders, muWriter, buckets, op, entity, cost,
                    bucket, exists, tmp, ok, calls, log, serial, created >>

NextRefill ==
    \/ RefillTick
    \/ RefillCall

SpecRefill == InitRefill /\ [][NextRefill]_vars

\* ----------------------------------------------------------- SpecFailing
\* The limiter built with a Refiller whose Refill may fail.
NextFailing ==
    \/ Next
    \/ \E p \in Procs : AllowRefillError(p)
    \/ \E p \in Procs : AllowReturnError(p)

SpecFailing == Init /\ [][NextFailing]_vars

\* -------------------------------------------------------------- SpecFair
\* The steps of a running call that wait for nobody.
Step(p) ==
    \/ AllowRUnlock(p) \/ AllowRecheck(p) \/ AllowUnlock(p)
    \/ AllowRefill(p) \/ AllowRefillError(p) \/ AllowCompare(p)
    \/ AllowLoad(p) \/ AllowStore(p) \/ AllowReturn(p) \/ AllowReturnError(p)
    \/ PenalizeRUnlock(p) \/ PenalizeRecheck(p) \/ PenalizeUnlock(p)
    \/ PenalizeLoad(p) \/ PenalizeStore(p) \/ PenalizeReturn(p)

\* The steps that wait for a lock: l.mu.Lock() and bucket.mu.Lock().
LockStep(p) ==
    \/ AllowLock(p) \/ AllowBucketLock(p)
    \/ PenalizeLock(p) \/ PenalizeBucketLock(p)

\* Allow and Penalize calls with an invalid, a zero and a valid cost, on a
\* limiter whose Refill may fail.
FairCosts == {-1, 0, 1}

NextFair ==
    \/ Tick
    \/ \E p \in Procs, e \in Entities, c \in FairCosts : calls < MaxCalls /\ AllowEnter(p, e, c)
    \/ \E p \in Procs, e \in Entities, c \in FairCosts : calls < MaxCalls /\ PenalizeEnter(p, e, c)
    \/ \E p \in Procs : Step(p)
    \/ \E p \in Procs : LockStep(p)

\* A fair scheduler: a goroutine that can run does run, and a goroutine waiting
\* for a mutex that is released again and again gets it (sync.Mutex hands the
\* lock to a starving waiter; a waiting writer of sync.RWMutex holds off new
\* readers).
SpecFair ==
    /\ Init /\ [][NextFair]_vars
    /\ \A p \in Procs : WF_vars(Step(p)) /\ SF_vars(LockStep(p))

\* ============================================================== properties
Buckets == 1..Len(heap)

\* Positions after the bucket has been resolved, and inside the critical section.
Resolved == {"a_block", "a_refill", "a_compare", "a_load", "a_store", "a_ret",
             "p_block", "p_load", "p_store", "p_ret"}
Critical == Resolved \ {"a_block", "p_block"}

\* The calls issued so far: the finished ones and the ones in flight.
InFlight == { p \in Procs : pc[p] # "idle" }
Issued ==
    { [op |-> log[i].op, cost |-> log[i].cost] : i \in 1..Len(log) }
        \cup { [op |-> op[p], cost |-> cost[p]] : p \in InFlight }
UnitAllows == Issued \subseteq { [op |-> "Allow", cost |-> 1] }
NeverRefills == refiller.Interval <= 0
Granted == Cardinality({ i \in 1..Len(log) : log[i].ok })
Denied  == Cardinality({ i \in 1..Len(log) : ~log[i].ok })

\* C1: however Allow and Penalize calls race on an entity that had no bucket,
\* NewBucket runs exactly once for it, its map entry is never overwritten once
\* inserted, and every racing caller locks and mutates that one bucket.
C1_OneBucketPerEntity ==
    /\ [](\A e \in Entities :
            /\ created[e] <= 1
            /\ (buckets[e] # NoBucket) <=> (created[e] = 1))
    /\ [](Len(heap) = Cardinality({ e \in Entities : buckets[e] # NoBucket }))
    /\ [](\A p \in Procs :
            /\ pc[p] \in Resolved => bucket[p] = buckets[entity[p]]
            /\ pc[p] \in Critical => heap[buckets[entity[p]]].mu = p)
    /\ [][\A e \in Entities : buckets[e] # NoBucket => buckets'[e] = buckets[e]]_vars

\* C1 witness: one caller is mutating the bucket it created while a caller of the
\* other method, which also missed the lookup, is about to re-check.
C1_Witness ==
    \E p, q \in Procs :
        /\ pc[p] = "a_store" /\ pc[q] = "p_recheck"
        /\ entity[p] = entity[q]
        /\ buckets[entity[q]] # NoBucket

\* C2: N concurrent unit-cost Allow calls on one fresh entity with initial balance
\* B < N and no refill: the balance always stays within 0..B, and once all N have
\* returned exactly B returned true, N - B returned false and the balance is 0.
C2_ExactlyBGranted ==
    (UnitAllows /\ NeverRefills) =>
        /\ \A b \in Buckets : heap[b].Tokens \in 0..refiller.InitialTokens
        /\ (InFlight = {} /\ Len(log) > refiller.InitialTokens) =>
                /\ Granted = refiller.InitialTokens
                /\ Denied = Len(log) - refiller.InitialTokens
                /\ heap[buckets["lewis"]].Tokens = 0

\* C2 witness: three unit-cost Allow calls have returned, against a balance of 2.
C2_Witness ==
    /\ UnitAllows /\ NeverRefills
    /\ InFlight = {} /\ Len(log) = 3
    /\ refiller.InitialTokens = 2
    /\ Granted = 2 /\ Denied = 1

\* C3: concurrent Allow and Penalize calls on one entity are equivalent to running
\* them one at a time in the order they entered the critical section: whenever
\* the bucket lock is free the bucket equals the serially computed one, and every
\* Allow returns what its serial run returns.
C3_Serializable ==
    /\ \A b \in Buckets :
            heap[b].mu = NoProc =>
                /\ heap[b].Tokens = serial[b].Tokens
                /\ heap[b].LastRefill = serial[b].LastRefill
    /\ \A p \in Procs : pc[p] = "a_ret" => ok[p] = snap[p].want

\* C3 witness: after a Penalize has returned, a granted Allow is about to release
\* the bucket lock while another Penalize waits for it.
C3_Witness ==
    \E p, q \in Procs :
        /\ pc[p] = "a_ret" /\ ok[p]
        /\ pc[q] = "p_block"
        /\ Len(log) = 1 /\ log[1].op = "Penalize"

\* C4: under a policy that never refills (Interval <= 0) with initial balance N,
\* unit-cost Allow calls on a fresh entity return true for exactly the first N
\* calls and false for call N+1 and every call after it.
C4_FirstNGranted ==
    (UnitAllows /\ NeverRefills) =>
        \A i \in 1..Len(log) : log[i].ok <=> (i <= refiller.InitialTokens)

\* C4 witness: with initial balance 1 and a negative Interval, three unit-cost
\* Allow calls returned true, false, false.
C4_Witness ==
    /\ UnitAllows /\ refiller.Interval < 0 /\ refiller.InitialTokens = 1
    /\ Len(log) = 3 /\ log[1].ok /\ ~log[2].ok /\ ~log[3].ok

\* C5: an Allow with cost > 0 returns true and has debited exactly cost when the
\* balance after the refill step was at least cost; otherwise it returns false
\* and the balance is still its post-refill value.
C5_DebitIffAffordable ==
    \A p \in Procs :
        pc[p] = "a_ret" =>
            IF snap[p].post >= cost[p]
            THEN ok[p] /\ heap[bucket[p]].Tokens = snap[p].post - cost[p]
            ELSE ~ok[p] /\ heap[bucket[p]].Tokens = snap[p].post

\* C5 witness: an Allow of cost 2 was granted after another Allow was denied.
C5_Witness ==
    \E p \in Procs :
        /\ pc[p] = "a_ret" /\ ok[p] /\ cost[p] = 2
        /\ \E i \in 1..Len(log) : log[i].op = "Allow" /\ log[i].cost > 0 /\ ~log[i].ok

\* Whole intervals elapsed between the bucket's LastRefill, as the caller found
\* it, and the caller's Refill.
Elapsed(p) == (snap[p].at - snap[p].LastRefill) \div refiller.Interval

\* C6: Allow refills before it compares: once past the refill step no whole
\* interval is owed as of that step, and a caller that found a balance below
\* the cost, which the owed tokens raise to at least the cost, is allowed.
C6_RefillBeforeCompare ==
    \A p \in Procs :
        refiller.Interval > 0 =>
            /\ pc[p] \in {"a_compare", "a_load", "a_store", "a_ret"} =>
                    snap[p].at - heap[bucket[p]].LastRefill < refiller.Interval
            /\ ( /\ pc[p] = "a_ret"
                 /\ snap[p].Tokens < cost[p]
                 /\ Elapsed(p) >= 1
                 /\ Min(refiller.MaxTokens,
                        snap[p].Tokens + Elapsed(p) * refiller.TokensPerInterval) >= cost[p] )
                    => ok[p]

\* C6 witness: an Allow that found a balance below its cost was granted.
C6_Witness ==
    \E p \in Procs :
        /\ pc[p] = "a_ret" /\ ok[p]
        /\ refiller.Interval > 0
        /\ snap[p].Tokens < cost[p]

\* C7: Penalize with amount > 0 leaves the balance at exactly B - amount, negative
\* or not, and applies no refill: LastRefill is as the caller found it.
C7_PenalizeNoRefill ==
    \A p \in Procs :
        pc[p] = "p_ret" =>
            /\ heap[bucket[p]].Tokens = snap[p].Tokens - cost[p]
            /\ heap[bucket[p]].LastRefill = snap[p].LastRefill

\* C7 witness: a Penalize drove the balance negative while whole intervals of a
\* refilling policy had elapsed since LastRefill.
C7_Witness ==
    \E p \in Procs :
        /\ pc[p] = "p_ret"
        /\ refiller.Interval > 0 /\ refiller.TokensPerInterval > 0
        /\ now - heap[bucket[p]].LastRefill >= refiller.Interval
        /\ heap[bucket[p]].Tokens < 0

\* The caller is the first to act on its entity's bucket.
FirstOn(p) == \A i \in 1..Len(log) : log[i].entity = entity[p] => log[i].cost <= 0

\* C8 as stated: a Penalize on an entity without a bucket leaves 0 - amount.
C8_FromZero ==
    \A p \in Procs :
        (pc[p] = "p_ret" /\ FirstOn(p)) => heap[bucket[p]].Tokens = 0 - cost[p]

\* C8: a Penalize that is the first call to act on an entity leaves the
\* balance at InitialTokens - amount.
C8_FromInitialTokens ==
    \A p \in Procs :
        (pc[p] = "p_ret" /\ FirstOn(p)) =>
            heap[bucket[p]].Tokens = refiller.InitialTokens - cost[p]

\* C8 witness: the first call on an entity is a Penalize that has deducted.
C8_Witness ==
    \E p \in Procs :
        /\ pc[p] = "p_ret" /\ FirstOn(p)
        /\ heap[bucket[p]].Tokens = refiller.InitialTokens - cost[p]
        /\ heap[bucket[p]].Tokens # 0 - cost[p]

\* A Penalize went first and every other call issued is a unit-cost Allow.
PenalizeThenUnitAllows ==
    /\ Len(log) >= 1 /\ log[1].op = "Penalize"
    /\ \A i \in 2..Len(log) : log[i].op = "Allow" /\ log[i].cost = 1
    /\ \A p \in InFlight : op[p] = "Allow" /\ cost[p] = 1

\* C9: a Penalize on a never-seen entity creates the bucket through NewBucket
\* and deducts, leaving InitialTokens - amount; under no refill exactly that
\* many unit-cost Allow calls succeed afterwards.
C9_PenalizeUnknown ==
    (NeverRefills /\ PenalizeThenUnitAllows) =>
        /\ (Len(log) = 1 /\ InFlight = {}) =>
                heap[buckets["lewis"]].Tokens = refiller.InitialTokens - log[1].cost
        /\ \A i \in 2..Len(log) :
                log[i].ok <=> (i - 1 <= refiller.InitialTokens - log[1].cost)

\* C9 witness: initial balance 2, Penalize by 1, then one Allow granted and the
\* next denied.
C9_Witness ==
    /\ NeverRefills /\ PenalizeThenUnitAllows
    /\ refiller.InitialTokens = 2 /\ log[1].cost = 1
    /\ Len(log) = 3 /\ log[2].ok /\ ~log[3].ok

\* What a call that returns before taking any lock must leave alone.
Untouched == << now, muReaders, muWriter, buckets, heap, pc, bucket, serial, created >>

\* C10: a negative cost is an error that changes nothing: the call returns
\* (false, error), never gets past the validation, and the step that returns it
\* creates no bucket, runs no refill, takes no lock and changes no bucket.
C10_NegativeCostRejected ==
    /\ [](\A i \in 1..Len(log) : log[i].cost < 0 => (log[i].err /\ ~log[i].ok))
    /\ [](\A p \in InFlight : cost[p] > 0)
    /\ [][(Len(log') > Len(log) /\ log'[Len(log')].cost < 0) => UNCHANGED Untouched]_vars

\* C10 witness: a negative cost has just been rejected while a bucket exists and
\* another caller is inside its critical section.
C10_Witness ==
    /\ Len(log) >= 1 /\ log[Len(log)].cost < 0 /\ log[Len(log)].err
    /\ \E p \in Procs : pc[p] \in Critical

\* C11: a zero cost is a no-op: Allow returns (true, nil) and Penalize returns
\* nil, whatever the balance and whether or not the entity has a bucket, in a
\* step that creates no bucket, runs no refill, takes no lock and changes no
\* balance or LastRefill; no caller is past the validation with a zero cost.
C11_ZeroCostNoOp ==
    /\ [](\A i \in 1..Len(log) :
            log[i].cost = 0 => (~log[i].err /\ (log[i].ok <=> log[i].op = "Allow")))
    /\ [](\A p \in InFlight : cost[p] # 0)
    /\ [][(Len(log') > Len(log) /\ log'[Len(log')].cost = 0) => UNCHANGED Untouched]_vars

\* C11 witness: Allow with cost 0 has just returned true for an entity whose
\* balance is negative, while the other entity has no bucket.
C11_Witness ==
    /\ Len(log) >= 1
    /\ log[Len(log)].cost = 0 /\ log[Len(log)].op = "Allow" /\ log[Len(log)].ok
    /\ buckets[log[Len(log)].entity] # NoBucket
    /\ heap[buckets[log[Len(log)].entity]].Tokens < 0
    /\ \E e \in Entities : buckets[e] = NoBucket

\* The entry a step adds to the log, when it adds one.
Returns == Len(log') = Len(log) + 1
Last == log'[Len(log')]

\* C12: Reject returns the negation of the boolean Allow returns from the same
\* state, with the same error, and leaves the state Allow leaves: (true, error)
\* for a negative cost and (false, nil) for a zero cost, nothing changed; for a
\* positive cost the negation of what Allow run from the bucket as found
\* returns, with the cost debited exactly when Reject returns false.
C12_RejectNegatesAllow ==
    [][(Returns /\ Last.op = "Reject") =>
          /\ Last.cost < 0 => (Last.ok /\ Last.err /\ UNCHANGED Untouched)
          /\ Last.cost = 0 => (~Last.ok /\ ~Last.err /\ UNCHANGED Untouched)
          /\ Last.cost > 0 =>
                \E p \in Procs :
                    /\ pc[p] = "a_ret" /\ pc'[p] = "idle"
                    /\ ~Last.err
                    /\ Last.ok = ~AllowSerial(refiller,
                                   [mu |-> NoProc, Tokens |-> snap[p].Tokens,
                                    LastRefill |-> snap[p].LastRefill],
                                   cost[p], snap[p].at).ok
                    /\ heap'[bucket[p]] =
                         AllowSerial(refiller,
                                   [mu |-> NoProc, Tokens |-> snap[p].Tokens,
                                    LastRefill |-> snap[p].LastRefill],
                                   cost[p], snap[p].at).bucket
                    /\ ~Last.ok => heap[bucket[p]].Tokens = snap[p].post - cost[p]]_vars

\* C12 witness: after a Reject of a negative cost returned (true, error), a
\* Reject of cost 2 is about to return false, the cost debited.
C12_Witness ==
    \E p \in Procs :
        /\ pc[p] = "a_ret" /\ op[p] = "Reject" /\ ok[p] /\ cost[p] = 2
        /\ heap[bucket[p]].Tokens = snap[p].post - 2
        /\ Len(log) = 1 /\ log[1].op = "Reject" /\ log[1].cost < 0 /\ log[1].ok /\ log[1].err

\* The number of whole intervals of length i that fit in d >= 0.
WholeIntervals(d, i) == CHOOSE k \in 0..MaxElapsed : k * i <= d /\ d < (k + 1) * i

\* The bucket FlatRefiller.Refill was last called on, and the time of the call.
Before == snap[1]

\* C13: with Interval > 0, Refill takes k, the number of whole intervals since
\* the bucket's LastRefill, makes the balance min(MaxTokens, balance + k *
\* TokensPerInterval) and moves LastRefill forward by exactly k * Interval;
\* with k = 0 it leaves balance and LastRefill alone.
C13_WholeIntervals ==
    (pc[1] = "refilled" /\ refiller.Interval > 0) =>
        LET k == WholeIntervals(Before.at - Before.LastRefill, refiller.Interval)
        IN  /\ k = 0 => /\ heap[1].Tokens = Before.Tokens
                        /\ heap[1].LastRefill = Before.LastRefill
            /\ k > 0 => /\ heap[1].Tokens =
                              Min(refiller.MaxTokens,
                                  Before.Tokens + k * refiller.TokensPerInterval)
                        /\ heap[1].LastRefill = Before.LastRefill + k * refiller.Interval

\* C13 witness: max 100, 10 per interval of 3; a balance of 10 refilled after 7
\* (k = 2) is 30 with LastRefill moved by 6, and refilled after 24 of interval
\* 1 would be 100.
C13_Witness ==
    /\ pc[1] = "refilled"
    /\ refiller.MaxTokens = 100 /\ refiller.TokensPerInterval = 10 /\ refiller.Interval = 3
    /\ Before.Tokens = 10 /\ Before.LastRefill = 0 /\ Before.at = 7
    /\ heap[1].Tokens = 30 /\ heap[1].LastRefill = 6
    /\ Refill([refiller EXCEPT !.Interval = 1], [heap[1] EXCEPT !.Tokens = 10], 30).Tokens = 100

\* C18: with Interval > 0 and TokensPerInterval >= 0, after any sequence of
\* Refill calls the last of which is at time t, on a bucket made at time 0:
\* the time since LastRefill is at least 0 and less than one Interval, and, as
\* long as the cap is not reached, the balance is the initial balance plus
\* floor(t / Interval) * TokensPerInterval, which is what one single Refill
\* at t gives.
C18_CreditIndependentOfCalls ==
    (pc[1] = "refilled" /\ refiller.Interval > 0 /\ refiller.TokensPerInterval >= 0) =>
        LET k == WholeIntervals(Before.at, refiller.Interval)
            credit == k * refiller.TokensPerInterval
        IN  /\ 0 <= Before.at - heap[1].LastRefill
            /\ Before.at - heap[1].LastRefill < refiller.Interval
            /\ refiller.InitialTokens + credit <= refiller.MaxTokens =>
                  /\ heap[1].Tokens = refiller.InitialTokens + credit
                  /\ heap[1] = Refill(refiller, NewBucket(refiller, 0), Before.at)

\* C18 witness: interval 3, 10 per interval, initial balance 10; a Refill at 5
\* left LastRefill at 3, and the Refill at 7 that followed credits the second
\* interval: balance 30, LastRefill 6.
C18_Witness ==
    /\ pc[1] = "refilled"
    /\ refiller.Interval = 3 /\ refiller.TokensPerInterval = 10 /\ refiller.InitialTokens = 10
    /\ Before.LastRefill = 3 /\ Before.Tokens = 20 /\ Before.at = 7
    /\ heap[1].Tokens = 30 /\ heap[1].LastRefill = 6

\* The callers positioned inside the critical section of bucket b.
Inside(b) == { p \in Procs : pc[p] \in Critical /\ bucket[p] = b }

\* C14: a bucket's Tokens and LastRefill are read or written only by the
\* caller that holds that bucket's lock: every caller between bucket.mu.Lock()
\* and the unlock (Refill, compare, load and store of Allow, load and store of
\* Penalize) is the holder, the only one for its bucket; a step that changes
\* Tokens or LastRefill is a step of the holder; and no two callers are in
\* Refill on the same bucket.
C14_BucketFieldsUnderLock ==
    /\ [](\A b \in Buckets : \A p \in Inside(b) : heap[b].mu = p)
    /\ [](\A p, q \in Procs :
            (p # q /\ pc[p] = "a_refill" /\ pc[q] = "a_refill") => bucket[p] # bucket[q])
    /\ [][\A b \in Buckets :
            (heap'[b].Tokens # heap[b].Tokens \/ heap'[b].LastRefill # heap[b].LastRefill) =>
                \E p \in Inside(b) : heap[b].mu = p /\ pc'[p] # pc[p]]_vars
    /\ [][\A p \in Procs :
            (tmp'[p] # tmp[p] \/ (ok'[p] # ok[p] /\ pc[p] # "idle" /\ pc'[p] # "idle")) =>
                (p \in Inside(bucket[p]) /\ heap[bucket[p]].mu = p)]_vars

\* C14 witness: one caller runs Refill holding the bucket lock while an Allow
\* and a Penalize on the same entity wait for that lock.
C14_Witness ==
    \E p, q, r \in Procs :
        /\ pc[p] = "a_refill" /\ heap[bucket[p]].mu = p
        /\ pc[q] = "a_block" /\ bucket[q] = bucket[p]
        /\ pc[r] = "p_block" /\ bucket[r] = bucket[p]

\* Positions between l.mu.RLock() and l.mu.RUnlock(), and between l.mu.Lock()
\* and l.mu.Unlock().
Looking   == {"a_runlock", "p_runlock"}
Inserting == {"a_recheck", "a_unlock", "p_recheck", "p_unlock"}

\* The callers stalled inside the critical section of a bucket of entity e.
Stalled(e) == { p \in Procs : pc[p] \in Critical /\ entity[p] = e }

\* C15: the map lock is held in read mode exactly around the lookup and in
\* write mode exactly around the re-check, NewBucket and the insert; a caller
\* that holds or waits for a bucket lock, runs Refill or mutates a balance does
\* not hold the map lock; and whatever callers are stalled in the critical
\* sections of other entities, a call on entity e can take the map lock in
\* read mode unless an inserting caller holds it, and a caller waiting for the
\* bucket lock of e takes it unless a caller on e itself holds it.
C15_MapLockOnlyAroundMap ==
    /\ muReaders = { p \in Procs : pc[p] \in Looking }
    /\ \A p \in Procs : muWriter = p <=> pc[p] \in Inserting
    /\ \A p \in Procs :
            (pc[p] \in Resolved \/ \E b \in Buckets : heap[b].mu = p) =>
                (p \notin muReaders /\ muWriter # p)
    /\ \A p \in Procs : \A e \in Entities :
            (Free(p) /\ calls < MaxCalls /\ \A q \in Procs : pc[q] \notin Inserting) =>
                (ENABLED AllowEnter(p, e, 1) /\ ENABLED PenalizeEnter(p, e, 1))
    /\ \A p \in Procs :
            (pc[p] \in {"a_block", "p_block"} /\ Stalled(entity[p]) = {}) =>
                (ENABLED AllowBucketLock(p) \/ ENABLED PenalizeBucketLock(p))

\* C15 witness: while a caller on "lewis" is stalled between the load and the
\* store of its debit, holding that bucket's lock, a caller on "unknown" holds
\* the map lock in write mode and has inserted its bucket.
C15_Witness ==
    \E p, q \in Procs :
        /\ pc[p] = "a_store" /\ entity[p] = "lewis" /\ heap[bucket[p]].mu = p
        /\ pc[q] = "p_unlock" /\ entity[q] = "unknown" /\ muWriter = q
        /\ buckets["unknown"] = bucket[q]

\* C16: when Refill returns an error, Allow returns (false, that error)
\* straight from there: it is the holder of the bucket lock until it returns,
\* the balance and LastRefill at the return are the ones Refill left (nothing
\* compared, nothing debited), and the return releases the bucket lock.
C16_RefillErrorPropagates ==
    /\ [](\A p \in Procs :
            pc[p] = "a_err" =>
                /\ heap[bucket[p]].mu = p
                /\ heap[bucket[p]].Tokens = snap[p].post
                /\ heap[bucket[p]].LastRefill = snap[p].LastRefill)
    /\ [](\A i \in 1..Len(log) : (log[i].err /\ log[i].cost > 0) => ~log[i].ok)
    /\ [][\A p \in Procs :
            (pc[p] = "a_err" /\ pc'[p] # "a_err") =>
                /\ pc'[p] = "idle"
                /\ Returns
                /\ Last = Returned("Allow", entity[p], cost[p], FALSE, TRUE)
                /\ heap' = [heap EXCEPT ![bucket[p]].mu = NoProc]]_vars

\* C16 witness: an Allow of cost 1 has returned (false, error) though the
\* balance would have paid for it; the balance is whole and the lock is free.
C16_Witness ==
    /\ Len(log) = 1 /\ log[1].err /\ log[1].cost = 1 /\ ~log[1].ok
    /\ buckets[log[1].entity] # NoBucket
    /\ heap[buckets[log[1].entity]].mu = NoProc
    /\ heap[buckets[log[1].entity]].Tokens = refiller.InitialTokens
    /\ refiller.InitialTokens >= 1

\* The bucket locks and the map lock a caller holds.
HeldBuckets(p) == { b \in Buckets : heap[b].mu = p }
HoldsMap(p)    == p \in muReaders \/ muWriter = p

\* C17: under a fair scheduler every call that has started returns; a caller
\* that has returned (allowed, denied, refill error, invalid or zero cost)
\* holds no lock; no caller holds the map lock together with a bucket lock, or
\* two bucket locks; and while calls are running one of them can take a step.
C17_EveryCallReturns ==
    /\ \A p \in Procs : (pc[p] # "idle") ~> (pc[p] = "idle")
    /\ [](\A p \in Procs : pc[p] = "idle" => (~HoldsMap(p) /\ HeldBuckets(p) = {}))
    /\ [](\A p \in Procs :
            /\ Cardinality(HeldBuckets(p)) <= 1
            /\ HoldsMap(p) => HeldBuckets(p) = {})
    /\ [](InFlight # {} => \E p \in InFlight : ENABLED Step(p) \/ ENABLED LockStep(p))
    /\ [][\A p \in Procs :
            (pc[p] # "idle" /\ pc'[p] = "idle") => (~HoldsMap(p)' /\ HeldBuckets(p)' = {})]_vars

\* C17 witness: two calls have returned, one allowed and one with a refill
\* error; nobody is running and no lock is held.
C17_Witness ==
    /\ InFlight = {}
    /\ muReaders = {} /\ muWriter = NoProc
    /\ \A b \in Buckets : heap[b].mu = NoProc
    /\ \E i, j \in 1..Len(log) :
            /\ log[i].ok /\ log[i].cost > 0
            /\ log[j].err /\ log[j].cost > 0

\* The entities the limiter tracks.
Tracked == { e \in Entities : buckets[e] # NoBucket }

\* C19: the set of tracked entities only grows: an entity that has a bucket
\* keeps that same bucket through every step, no bucket object goes away, and
\* every call with a positive cost that has returned, a denied Allow included,
\* has left its entity tracked.
C19_TrackedOnlyGrows ==
    /\ [][/\ \A e \in Tracked : buckets'[e] = buckets[e]
          /\ Cardinality(Tracked') >= Cardinality(Tracked)
          /\ Len(heap') >= Len(heap)]_vars
    /\ [](\A i \in 1..Len(log) : log[i].cost > 0 => log[i].entity \in Tracked)

\* C19 witness: the first call on an entity, an Allow that was denied, has
\* returned and the entity is tracked; a later call on the other entity has
\* added a second entry.
C19_Witness ==
    /\ Len(log) = 1
    /\ log[1].op = "Allow" /\ log[1].cost > 0 /\ ~log[1].ok /\ ~log[1].err
    /\ created[log[1].entity] = 1
    /\ Tracked = Entities

\* The entities whose map entry or bucket a step changes.
Touched ==
    { e \in Entities :
        \/ buckets'[e] # buckets[e]
        \/ /\ buckets[e] # NoBucket
           /\ \/ heap'[buckets[e]].Tokens # heap[buckets[e]].Tokens
              \/ heap'[buckets[e]].LastRefill # heap[buckets[e]].LastRefill }

\* C20: buckets are independent: a step that changes the map entry of an
\* entity, or the Tokens or LastRefill of its bucket, is a step of a call on
\* that entity; it changes nothing of any other entity and makes no bucket for
\* another entity.
C20_BucketsIndependent ==
    [][/\ \A e \in Touched :
              \E p \in InFlight : entity[p] = e /\ pc'[p] # pc[p]
       /\ Cardinality(Touched) <= 1
       /\ Len(heap') > Len(heap) =>
              \E p \in InFlight :
                  /\ pc'[p] # pc[p]
                  /\ Len(heap') = Len(heap) + 1
                  /\ buckets'[entity[p]] = Len(heap')
                  /\ \A e \in Entities \ {entity[p]} : buckets'[e] = buckets[e]]_vars

\* C20 witness: an Allow on "lewis" has been granted and debited while the
\* bucket of "unknown", made earlier, still has its initial balance and its
\* caller waits to act on it.
C20_Witness ==
    /\ Len(log) = 1
    /\ log[1].op = "Allow" /\ log[1].entity = "lewis" /\ log[1].ok /\ log[1].cost > 0
    /\ Tracked = Entities
    /\ buckets["unknown"] < buckets["lewis"]
    /\ heap[buckets["lewis"]].Tokens = refiller.InitialTokens - log[1].cost
    /\ heap[buckets["unknown"]].Tokens = refiller.InitialTokens
    /\ \E q \in Procs : pc[q] \in {"a_block", "p_block"} /\ entity[q] = "unknown"

\* The whole intervals elapsed at the last Refill call, none without an interval.
Elapsed_k ==
    IF refiller.Interval > 0
    THEN WholeIntervals(Before.at - Before.LastRefill, refiller.Interval)
    ELSE 0

\* C21 as stated: a Refill after at least one whole interval leaves the balance
\* at most MaxTokens and lowers a balance above MaxTokens to MaxTokens; with no
\* whole interval a balance above MaxTokens stays; a balance at or below
\* MaxTokens is never lowered when TokensPerInterval >= 0.
C21_LoweredToMax ==
    pc[1] = "refilled" =>
        /\ Elapsed_k >= 1 =>
              /\ heap[1].Tokens <= refiller.MaxTokens
              /\ Before.Tokens > refiller.MaxTokens => heap[1].Tokens = refiller.MaxTokens
        /\ Elapsed_k = 0 => heap[1].Tokens = Before.Tokens
        /\ (Before.Tokens <= refiller.MaxTokens /\ refiller.TokensPerInterval >= 0) =>
              heap[1].Tokens >= Before.Tokens

\* C21: the cap acts only in a Refill after at least one whole interval: the
\* balance is then at most MaxTokens, and a balance above MaxTokens is lowered,
\* to MaxTokens itself when TokensPerInterval >= 0 and to balance + k *
\* TokensPerInterval when that is less; with no whole interval a balance above
\* MaxTokens stays; a balance at or below MaxTokens is never lowered when
\* TokensPerInterval >= 0.
C21_CapOnlyOnRefill ==
    pc[1] = "refilled" =>
        /\ Elapsed_k >= 1 =>
              /\ heap[1].Tokens <= refiller.MaxTokens
              /\ Before.Tokens > refiller.MaxTokens =>
                    /\ heap[1].Tokens < Before.Tokens
                    /\ heap[1].Tokens =
                          Min(refiller.MaxTokens,
                              Before.Tokens + Elapsed_k * refiller.TokensPerInterval)
                    /\ refiller.TokensPerInterval >= 0 => heap[1].Tokens = refiller.MaxTokens
        /\ Elapsed_k = 0 => heap[1].Tokens = Before.Tokens
        /\ (Before.Tokens <= refiller.MaxTokens /\ refiller.TokensPerInterval >= 0) =>
              heap[1].Tokens >= Before.Tokens

\* C21 witness: a bucket made with 120 tokens against a maximum of 100 kept
\* them through a Refill before the first interval of 3 was over, and the
\* Refill at time 3 lowers the balance to 100.
C21_Witness ==
    /\ pc[1] = "refilled"
    /\ refiller.InitialTokens = 120 /\ refiller.MaxTokens = 100
    /\ refiller.TokensPerInterval = 10 /\ refiller.Interval = 3
    /\ Before.Tokens = 120 /\ Before.LastRefill = 0 /\ Before.at = 3
    /\ heap[1].Tokens = 100

\* C22: every bucket's LastRefill is never later than the clock and never
\* moves backward: a step either leaves it as it is or is the Refill of an
\* Allow that holds the bucket's lock and moves it forward by a positive whole
\* multiple of a positive Interval.
C22_LastRefillMonotone ==
    /\ [](\A b \in Buckets : heap[b].LastRefill <= now)
    /\ [][\A b \in Buckets :
            heap'[b].LastRefill # heap[b].LastRefill =>
                /\ refiller.Interval > 0
                /\ \E k \in 1..MaxTime :
                      heap'[b].LastRefill = heap[b].LastRefill + k * refiller.Interval
                /\ \E p \in Procs :
                      /\ pc[p] = "a_refill" /\ pc'[p] = "a_compare"
                      /\ bucket[p] = b]_vars

\* C22 witness: after a Penalize that left LastRefill where NewBucket put it,
\* the Refill of an Allow at time 2 has moved it from 0 by two intervals of 1.
C22_Witness ==
    \E p \in Procs :
        /\ pc[p] = "a_compare"
        /\ refiller.Interval = 1 /\ now = 2
        /\ snap[p].LastRefill = 0
        /\ heap[bucket[p]].LastRefill = 2
        /\ Len(log) = 1 /\ log[1].op = "Penalize" /\ log[1].cost > 0
        /\ log[1].entity = entity[p]

====
